---- MODULE Spec2Model ----
(***************************************************************************)
(* ppef: partitioned Elias-Fano encoding of a non-decreasing sequence of   *)
(* unsigned integers.                                                      *)
(*                                                                         *)
(* The source works on uint64_t words and values.  The model keeps every   *)
(* shift, mask and wrap-around of the source but scales the machine word   *)
(* from 64 bits to WordBits = 4 bits (so ">> 6" becomes ">> LogWordBits"   *)
(* and "& 63" becomes "& (WordBits - 1)"), which lets TLC enumerate every  *)
(* value of the domain, the overflowing ones included.  Element counts are *)
(* not scaled: a block of n values in the model stands for a block whose   *)
(* n is the same fraction of the word width in the source.                 *)
(***************************************************************************)
EXTENDS Integers, Sequences, FiniteSets, TLC

\* ------------------------------------------------------------------------
\* Machine words
\* ------------------------------------------------------------------------

\* width of a word and of a value (64 in the source)
WordBits == 4
\* log2 of the word width (6 in the source: pos >> 6)
LogWordBits == 2

Pow2(k) == 2 ^ k
\* number of values of the unsigned type
Modulus == Pow2(WordBits)
\* the largest value of the unsigned type, also the "no such bit" sentinel
UINT64_MAX == Modulus - 1
Word == 0 .. UINT64_MAX
\* unsigned wrap-around of +, -, *
Wrap(x) == x % Modulus
\* x << k, for k < WordBits
Shl(x, k) == (x * Pow2(k)) % Modulus
\* x >> k, for k < WordBits
Shr(x, k) == x \div Pow2(k)
\* (1ULL << k) - 1ULL
LowMask(k) == Pow2(k) - 1
\* a mask that keeps the bits below k
HighMask_All(k) == UINT64_MAX

\* ~0ULL << k
HighMask(k) == UINT64_MAX - LowMask(k)

RECURSIVE BitAnd(_, _)
BitAnd(x, y) ==
    IF x = 0 \/ y = 0 THEN 0
    ELSE (x % 2) * (y % 2) + 2 * BitAnd(x \div 2, y \div 2)

RECURSIVE BitOr(_, _)
BitOr(x, y) ==
    IF x = 0 THEN y
    ELSE IF y = 0 THEN x
    ELSE (IF x % 2 = 1 \/ y % 2 = 1 THEN 1 ELSE 0) + 2 * BitOr(x \div 2, y \div 2)

\* ------------------------------------------------------------------------
\* Bounds of the model
\* ------------------------------------------------------------------------

\* number of put() calls of one writer session
MaxPuts == 2
\* number of words of a buffer handed to a reader or to a scan
MaxWords == 2
\* number of get() calls of one reader session
MaxGets == 3
\* number of values handed to one EFBlock
MaxElems == 3
\* length of the left (or only) operand of a Sequence operation
MaxLenA == 3
\* length of the right operand of intersect and union
MaxLenB == 2
\* largest block_size of a Sequence
MaxBlockSize == 2
\* number of scan() calls of one reader session
MaxScans == 1
\* number of get() calls of a reader session with scans
MaxScanGets == 2

\* ------------------------------------------------------------------------
\* State
\* ------------------------------------------------------------------------

VARIABLES
    writer,   \* BitWriter: [words, cur, filled]
    puts,     \* the put(val, w) calls made so far, in order: the width w
              \* and the w low bits of val
    reader,   \* BitReader: [words, n_words, idx, consumed, cur]
    loads,    \* the indices i at which the reader has read words[i]
    got,      \* the get(w) calls so far: their number n, and the last one's
              \* width w, first bit position at and result res
    phase,    \* position of the driver
    H,        \* the bit array that next_one_at_or_after scans
    pos,      \* the position the scan starts at
    found,    \* the scan's result, once it has returned: [ret]
    values,   \* the run of integers handed to EFBlock::EFBlock
    blk,      \* the EFBlock built from them: [meta, low, high]
    out,      \* what EFBlock::decode returned
    efpc,     \* position of the EFBlock driver
    inA,      \* arguments of the left Sequence's constructor
    seqA,     \* the left (or only) Sequence
    inB,      \* arguments of the right Sequence's constructor
    seqB,     \* the right Sequence
    seqR,     \* the result of intersect or union: [op, seq]
    ret,      \* the last query and what it returned
    stream,   \* the serialized form of seqA or of the result: [of, cells]
    seqL,     \* the Sequence constructed from the stream
    spc       \* position of the Sequence driver

bitVars == <<writer, puts, reader, loads, got, phase>>
scanVars == <<H, pos, found>>
efVars == <<values, blk, out, efpc>>
seqVars == <<inA, seqA, inB, seqB, seqR, ret, stream, seqL, spc>>
vars == <<writer, puts, reader, loads, got, phase, H, pos, found,
          values, blk, out, efpc,
          inA, seqA, inB, seqB, seqR, ret, stream, seqL, spc>>

\* ------------------------------------------------------------------------
\* Bit scans
\* ------------------------------------------------------------------------

\* floor(log2(x)), for x # 0
RECURSIVE floor_log2_u64(_)
floor_log2_u64(x) == IF x <= 1 THEN 0 ELSE 1 + floor_log2_u64(x \div 2)

\* ceil(a / b), in wrapping arithmetic
ceil_div_u64(a, b) == Wrap(a + b - 1) \div b

\* number of trailing zero bits of x, for x # 0
RECURSIVE ctz64(_)
ctz64(x) == IF x % 2 = 1 THEN 0 ELSE 1 + ctz64(x \div 2)

\* the while (w == 0) loop of next_one_at_or_after and its return
RECURSIVE ScanLoop(_, _, _, _)
ScanLoop(Hw, nwords, wi, w) ==
    IF w # 0 THEN Wrap(Shl(wi, LogWordBits) + ctz64(w))
    ELSE IF wi + 1 >= nwords THEN UINT64_MAX
    ELSE ScanLoop(Hw, nwords, wi + 1, Hw[wi + 2])

\* next_one_at_or_after(H, nwords, pos)
next_one_at_or_after(Hw, nwords, p) ==
    LET wi == Shr(p, LogWordBits)
        bo == BitAnd(p, WordBits - 1)
    IN IF wi >= nwords THEN UINT64_MAX
       ELSE ScanLoop(Hw, nwords, wi, BitAnd(Hw[wi + 1], HighMask(bo)))

\* ------------------------------------------------------------------------
\* BitReader
\* ------------------------------------------------------------------------

NoReader == [words |-> <<>>, n_words |-> 0, idx |-> 0, consumed |-> 0, cur |-> 0]

\* BitReader::BitReader(words, n_words)
BitReader(words, n_words) ==
    [words |-> words, n_words |-> n_words, idx |-> 0, consumed |-> 0,
     cur |-> IF n_words # 0 THEN words[1] ELSE 0]

\* the words the constructor reads
BitReaderLoads(n_words) == IF n_words # 0 THEN {0} ELSE {}

\* a reader that keeps the last word when the stream is exhausted
Refill_Stale(br, idx1) ==
    IF idx1 < br.n_words THEN br.words[idx1 + 1] ELSE br.cur

\* cur = (idx < n_words) ? words[idx] : 0
Refill(br, idx1) ==
    IF idx1 < br.n_words THEN br.words[idx1 + 1] ELSE 0

\* the while (w) loop of BitReader::get; ld collects the indices read
RECURSIVE GetLoop(_, _, _, _, _)
GetLoop(br, w, res, produced, ld) ==
    IF w = 0 THEN [br |-> br, res |-> res, loads |-> ld]
    ELSE
        LET refill == br.consumed = WordBits
            idx1 == IF refill THEN br.idx + 1 ELSE br.idx
            inbuf == idx1 < br.n_words
            cur1 == IF refill THEN Refill(br, idx1) ELSE br.cur
            ld1 == IF refill /\ inbuf THEN ld \cup {idx1} ELSE ld
            consumed1 == IF refill THEN 0 ELSE br.consumed
            space == WordBits - consumed1
            take == IF w < space THEN w ELSE space
            chunk0 == Shr(cur1, consumed1)
            chunk == IF take < WordBits THEN BitAnd(chunk0, LowMask(take)) ELSE chunk0
            res1 == BitOr(res, Shl(chunk, produced))
            br1 == [br EXCEPT !.idx = idx1, !.cur = cur1,
                              !.consumed = consumed1 + take]
        IN GetLoop(br1, w - take, res1, produced + take, ld1)

\* a scan that moves idx and consumed and keeps the cached word
scan_KeepCur(br, bit_pos) ==
    [br EXCEPT !.idx = bit_pos \div WordBits, !.consumed = bit_pos % WordBits]

\* BitReader::scan(bit_pos): the cursor is set to the absolute bit position
\* bit_pos, the cached word is the one the position lies in
scan(br, bit_pos) ==
    LET idx1 == bit_pos \div WordBits
    IN [br EXCEPT !.idx = idx1, !.consumed = bit_pos % WordBits,
                  !.cur = IF idx1 < br.n_words THEN br.words[idx1 + 1] ELSE 0]

\* the words scan() reads
scanLoads(br, bit_pos) ==
    IF bit_pos \div WordBits < br.n_words THEN {bit_pos \div WordBits} ELSE {}

\* BitReader::get(w): the reader afterwards, the result, the words read
get(br, w) ==
    IF w = 0 THEN [br |-> br, res |-> 0, loads |-> {}]
    ELSE GetLoop(br, w, 0, 0, {})

\* ------------------------------------------------------------------------
\* BitWriter
\* ------------------------------------------------------------------------

NewWriter == [words |-> <<>>, cur |-> 0, filled |-> 0]

\* the while (remain) loop of BitWriter::put.  "val >>= take" with
\* take == WordBits shifts by the full width, which is undefined: the value
\* it leaves in val is ub, any word.
RECURSIVE PutLoop(_, _, _, _)
PutLoop(bw, val, remain, ub) ==
    IF remain = 0 THEN bw
    ELSE
        LET space == WordBits - bw.filled
            take == IF remain < space THEN remain ELSE space
            chunk == BitAnd(val, IF take = WordBits THEN UINT64_MAX ELSE LowMask(take))
            cur1 == BitOr(bw.cur, Shl(chunk, bw.filled))
            filled1 == bw.filled + take
            val1 == IF take = WordBits THEN ub ELSE Shr(val, take)
            bw1 == IF filled1 = WordBits
                   THEN [words |-> Append(bw.words, cur1), cur |-> 0, filled |-> 0]
                   ELSE [words |-> bw.words, cur |-> cur1, filled |-> filled1]
        IN PutLoop(bw1, val1, remain - take, ub)

\* BitWriter::put(val, w)
put(bw, val, w, ub) ==
    IF w = 0 THEN bw
    ELSE PutLoop(bw, IF w < WordBits THEN BitAnd(val, LowMask(w)) ELSE val, w, ub)

\* a flush without the test of filled: it emits a word every time
flush_Always(bw) == [words |-> Append(bw.words, bw.cur), cur |-> 0, filled |-> 0]

\* a flush that resets the partial word without emitting it
flush_Drop(bw) == [words |-> bw.words, cur |-> 0, filled |-> 0]

\* BitWriter::flush()
flush(bw) ==
    IF bw.filled # 0
    THEN [words |-> Append(bw.words, bw.cur), cur |-> 0, filled |-> 0]
    ELSE bw

\* ------------------------------------------------------------------------
\* EFBlock
\* ------------------------------------------------------------------------

NoBlock ==
    [meta |-> [n_elem |-> 0, l |-> 0, floor |-> 0, low_words |-> 0,
               high_words |-> 0, high_bits_len |-> 0],
     low |-> <<>>, high |-> <<>>]

\* EFBlock::choose_l(range, n)
choose_l(range, n) ==
    IF n = 0 THEN 0
    ELSE LET q == range \div n
         IN IF q = 0 THEN 0 ELSE floor_log2_u64(q)

\* the loop that packs the l low bits of values[i .. n_elem - 1] (0-based).
\* l < WordBits, so put() never shifts by the full width here.
RECURSIVE PackLow(_, _, _, _, _, _)
PackLow(bw, vals, n_elem, floor, l, i) ==
    IF i >= n_elem THEN bw
    ELSE LET x == Wrap(vals[i + 1] - floor)
             low == BitAnd(x, Wrap(Shl(1, l) - 1))
         IN PackLow(put(bw, low, l, 0), vals, n_elem, floor, l, i + 1)

\* the loop that sets bit hi + i of the high bits for values[i .. n_elem - 1].
\* high[pos >> 6] with pos >> 6 >= high.size() writes outside the vector,
\* which is undefined: stray records that it happened and the vector is
\* left as it is.
RECURSIVE SetHigh(_, _, _, _, _, _, _)
SetHigh(high, stray, vals, n_elem, floor, l, i) ==
    IF i >= n_elem THEN [high |-> high, stray |-> stray]
    ELSE LET x == Wrap(vals[i + 1] - floor)
             hi == IF l = 0 THEN x ELSE Shr(x, l)
             p == Wrap(hi + i)
             wi == Shr(p, LogWordBits)
             bit == Shl(1, BitAnd(p, WordBits - 1))
         IN IF wi < Len(high)
            THEN SetHigh([high EXCEPT ![wi + 1] = BitOr(@, bit)], stray,
                         vals, n_elem, floor, l, i + 1)
            ELSE SetHigh(high, TRUE, vals, n_elem, floor, l, i + 1)

\* EFBlock::EFBlock(values, n_elem) after its n_elem == 0 test: the block
\* and whether building it wrote outside the high vector; touched tells
\* that values and the buffers of the block were accessed
EFBlockBody(vals, n_elem) ==
    LET floor == vals[1]
        last == vals[n_elem]
        range == Wrap(Wrap(last - vals[1]) + 1)
        l == choose_l(range, n_elem)
        bw == IF l > 0
              THEN flush(PackLow(NewWriter, vals, n_elem, floor, l, 0))
              ELSE NewWriter
        low == bw.words
        range_hi == IF l = 0 THEN range
                    ELSE Shr(Wrap(range + Wrap(Shl(1, l) - 1)), l)
        bits_hi == Wrap(n_elem + range_hi)
        hw == ceil_div_u64(bits_hi, WordBits)
        hs == SetHigh([k \in 1 .. hw |-> 0], FALSE, vals, n_elem, floor, l, 0)
    IN [throws |-> FALSE,
        blk |-> [meta |-> [n_elem |-> n_elem, l |-> l, floor |-> floor,
                           low_words |-> Len(low),
                           high_words |-> Len(hs.high),
                           high_bits_len |-> bits_hi],
                 low |-> low, high |-> hs.high],
        stray |-> hs.stray, touched |-> TRUE]

\* a constructor without the n_elem == 0 test: it goes on to values[0] and
\* leaves a block of no elements
EFBlock_Unchecked(vals, n_elem) ==
    IF n_elem = 0
    THEN [throws |-> FALSE, blk |-> NoBlock, stray |-> FALSE, touched |-> TRUE]
    ELSE EFBlockBody(vals, n_elem)

\* EFBlock::EFBlock(values, n_elem): the exception thrown before values or
\* a buffer are accessed, or the block
EFBlock(vals, n_elem) ==
    IF n_elem = 0
    THEN [throws |-> TRUE, blk |-> NoBlock, stray |-> FALSE, touched |-> FALSE]
    ELSE EFBlockBody(vals, n_elem)

\* out[i] = meta.floor + ((hi << meta.l) | lo)
Combine(floor, hi, l, lo) == Wrap(floor + BitOr(Shl(hi, l), lo))

\* the for loop of EFBlock::decode over i .. n_elem - 1.  acc.out is the
\* output so far; acc.notfound tells that a scan returned UINT64_MAX and the
\* loop went on with it, acc.restarted that a later scan began at bit 0
\* because prev_hi_pos held that result.
RECURSIVE DecodeLoop(_, _, _, _, _)
DecodeLoop(b, br, prev_hi_pos, i, acc) ==
    IF i >= b.meta.n_elem THEN acc
    ELSE LET start == IF prev_hi_pos = UINT64_MAX THEN 0 ELSE Wrap(prev_hi_pos + 1)
             p == next_one_at_or_after(b.high, b.meta.high_words, start)
             hi == Wrap(p - i)
             r == IF b.meta.l # 0 THEN get(br, b.meta.l)
                  ELSE [br |-> br, res |-> 0, loads |-> {}]
         IN DecodeLoop(b, r.br, p, i + 1,
                       [out |-> Append(acc.out,
                                       Combine(b.meta.floor, hi, b.meta.l, r.res)),
                        notfound |-> acc.notfound \/ p = UINT64_MAX,
                        restarted |-> acc.restarted
                                      \/ (i > 0 /\ prev_hi_pos = UINT64_MAX)])

\* EFBlock::decode() with what its loop met on the way
DecodeRun(b) ==
    DecodeLoop(b, BitReader(b.low, Len(b.low)), UINT64_MAX, 0,
               [out |-> <<>>, notfound |-> FALSE, restarted |-> FALSE])

\* EFBlock::decode()
decode(b) == DecodeRun(b).out

\* ------------------------------------------------------------------------
\* Sequence (class PEF of ppef.h): header, skip index and payload.  The
\* payload and the serialized stream are sequences of 8-byte cells; the two
\* header cells that pack two 4-byte fields are pairs.
\* ------------------------------------------------------------------------

\* bytes of a cell
CellBytes == 8
\* sizeof(EFBlockMetadata) and sizeof(PEFMetadata)
MetaBytes == 40
MetaCells == MetaBytes \div CellBytes

\* one block of the payload: header, low, high
EFBlockCells(b) ==
    << <<b.meta.n_elem, b.meta.l>>, b.meta.floor, b.meta.low_words,
       b.meta.high_words, b.meta.high_bits_len >> \o b.low \o b.high

\* PEF::append_bytes(src, n)
append_bytes(payload, cells) == payload \o cells

\* a header that stores n_elem where n_blocks belongs
PEFMetadataCells_Swapped(meta) ==
    << <<meta.magic, meta.version>>, meta.n_blocks,
       <<meta.block_size, meta.reserved>>, meta.n_elem, meta.payload_offset >>

\* struct PEFMetadata as it lies in the file
PEFMetadataCells(meta) ==
    << <<meta.magic, meta.version>>, meta.n_elem,
       <<meta.block_size, meta.reserved>>, meta.n_blocks, meta.payload_offset >>

EmptyMeta ==
    [magic |-> "PPEF", version |-> 1, n_elem |-> 0, block_size |-> 0,
     reserved |-> 0, n_blocks |-> 0, payload_offset |-> MetaBytes]

NoSequence ==
    [meta |-> EmptyMeta, block_last |-> <<>>, block_offs |-> <<>>, payload |-> <<>>]

\* min(a, b)
Min(a, b) == IF a < b THEN a ELSE b

\* the partitioner: blocks b .. n_blocks - 1 of vals appended to sq; stray
\* tells whether some EFBlock wrote outside its high vector
RECURSIVE AppendBlocks(_, _, _, _, _)
AppendBlocks(sq, stray, vals, block_size, b) ==
    IF b >= sq.meta.n_blocks THEN [seq |-> sq, stray |-> stray]
    ELSE LET lo == b * block_size
             hi == Min(lo + block_size, Len(vals))
             e == EFBlock(SubSeq(vals, lo + 1, hi), hi - lo)
             sq1 == [sq EXCEPT
                       !.block_last = Append(@, vals[hi]),
                       !.block_offs = Append(@, CellBytes * Len(sq.payload)),
                       !.payload = append_bytes(@, EFBlockCells(e.blk))]
         IN AppendBlocks(sq1, stray \/ e.stray, vals, block_size, b + 1)

\* a Sequence of the values vals in blocks of block_size
BuildSequence(vals, block_size) ==
    LET n_blocks == (Len(vals) + block_size - 1) \div block_size
        meta == [magic |-> "PPEF", version |-> 1, n_elem |-> Len(vals),
                 block_size |-> block_size, reserved |-> 0,
                 n_blocks |-> n_blocks,
                 payload_offset |-> MetaBytes + 2 * CellBytes * n_blocks]
    IN AppendBlocks([meta |-> meta, block_last |-> <<>>, block_offs |-> <<>>,
                     payload |-> <<>>], FALSE, vals, block_size, 0)

\* a constructor that encodes the blocks first and looks at the order of the
\* input afterwards
Sequence_Late(vals, block_size) ==
    LET r == BuildSequence(vals, block_size)
    IN IF ~ (\A i \in 1 .. Len(vals) - 1 : vals[i] <= vals[i + 1])
       THEN [throws |-> "NotSorted", seq |-> NoSequence, stray |-> r.stray,
             encoded |-> r.seq.meta.n_blocks]
       ELSE [throws |-> "", seq |-> r.seq, stray |-> r.stray,
             encoded |-> r.seq.meta.n_blocks]

\* Sequence(values, block_size): the error, or the Sequence; whether some
\* block was written outside its high vector, and how many EFBlocks were
\* encoded on the way
Sequence(vals, block_size) ==
    IF ~ (\A i \in 1 .. Len(vals) - 1 : vals[i] <= vals[i + 1])
    THEN [throws |-> "NotSorted", seq |-> NoSequence, stray |-> FALSE,
          encoded |-> 0]
    ELSE LET r == BuildSequence(vals, block_size)
         IN [throws |-> "", seq |-> r.seq, stray |-> r.stray,
             encoded |-> r.seq.meta.n_blocks]

\* Sequence::get_efblock(i), for i < n_blocks
get_efblock(sq, i) ==
    LET at == sq.block_offs[i + 1] \div CellBytes
        head == SubSeq(sq.payload, at + 1, at + MetaCells)
        low_words == head[3]
        high_words == head[4]
    IN [meta |-> [n_elem |-> head[1][1], l |-> head[1][2], floor |-> head[2],
                  low_words |-> low_words, high_words |-> high_words,
                  high_bits_len |-> head[5]],
        low |-> SubSeq(sq.payload, at + MetaCells + 1, at + MetaCells + low_words),
        high |-> SubSeq(sq.payload, at + MetaCells + low_words + 1,
                        at + MetaCells + low_words + high_words)]

\* Sequence::decode_block(i)
decode_block(sq, i) ==
    IF i >= sq.meta.n_blocks THEN [throws |-> "IndexOutOfRange", val |-> <<>>]
    ELSE [throws |-> "", val |-> decode(get_efblock(sq, i))]

RECURSIVE DecodeFrom(_, _)
\* the blocks b .. n_blocks - 1, decoded and concatenated
DecodeFrom(sq, b) ==
    IF b >= sq.meta.n_blocks THEN <<>>
    ELSE decode_block(sq, b).val \o DecodeFrom(sq, b + 1)

\* Sequence::decode()
Sequence_decode(sq) == DecodeFrom(sq, 0)

\* a get that lets the index n_elem through and answers it with zero
Sequence_get_Last(sq, i) ==
    IF i > sq.meta.n_elem THEN [throws |-> "IndexOutOfRange", val |-> 0]
    ELSE IF i = sq.meta.n_elem THEN [throws |-> "", val |-> 0]
    ELSE LET b == i \div sq.meta.block_size
             k == i % sq.meta.block_size
         IN [throws |-> "", val |-> decode_block(sq, b).val[k + 1]]

\* Sequence::get(i)
Sequence_get(sq, i) ==
    IF i >= sq.meta.n_elem THEN [throws |-> "IndexOutOfRange", val |-> 0]
    ELSE LET b == i \div sq.meta.block_size
             k == i % sq.meta.block_size
         IN [throws |-> "", val |-> decode_block(sq, b).val[k + 1]]

RECURSIVE LowerBound(_, _, _)
\* the first index b >= lo with block_last[b] >= q, or the length
LowerBound(block_last, q, lo) ==
    IF lo >= Len(block_last) THEN Len(block_last)
    ELSE IF block_last[lo + 1] >= q THEN lo
    ELSE LowerBound(block_last, q, lo + 1)

RECURSIVE ScanFor(_, _, _)
\* stream over the decoded block d from k: true on equality, false on a
\* value above q or at the end
ScanFor(d, q, k) ==
    IF k > Len(d) THEN FALSE
    ELSE IF d[k] = q THEN TRUE
    ELSE IF d[k] > q THEN FALSE
    ELSE ScanFor(d, q, k + 1)

\* Sequence::contains(q)
contains(sq, q) ==
    LET b == LowerBound(sq.block_last, q, 0)
    IN IF b >= sq.meta.n_blocks THEN FALSE
       ELSE IF b > 0 /\ get_efblock(sq, b).meta.floor > q THEN FALSE
       ELSE ScanFor(decode_block(sq, b).val, q, 1)

\* ------------------------------------------------------------------------
\* Set algebra
\* ------------------------------------------------------------------------

\* append v to the output unless it repeats the last value emitted
Emit(acc, v) ==
    IF acc # <<>> /\ acc[Len(acc)] = v THEN acc ELSE Append(acc, v)

\* the joint advance of the block cursors a, b and of the positions i, j
\* inside the two current blocks
RECURSIVE IntersectLoop(_, _, _, _, _, _, _)
IntersectLoop(A, B, a, i, b, j, acc) ==
    IF a >= A.meta.n_blocks \/ b >= B.meta.n_blocks THEN acc
    ELSE IF A.block_last[a + 1] < get_efblock(B, b).meta.floor
         THEN IntersectLoop(A, B, a + 1, 0, b, j, acc)
    ELSE IF B.block_last[b + 1] < get_efblock(A, a).meta.floor
         THEN IntersectLoop(A, B, a, i, b + 1, 0, acc)
    ELSE LET da == decode_block(A, a).val
             db == decode_block(B, b).val
         IN IF i >= Len(da) THEN IntersectLoop(A, B, a + 1, 0, b, j, acc)
            ELSE IF j >= Len(db) THEN IntersectLoop(A, B, a, i, b + 1, 0, acc)
            ELSE IF da[i + 1] < db[j + 1]
                 THEN IntersectLoop(A, B, a, i + 1, b, j, acc)
            ELSE IF da[i + 1] > db[j + 1]
                 THEN IntersectLoop(A, B, a, i, b, j + 1, acc)
            ELSE IntersectLoop(A, B, a, i + 1, b, j + 1, Emit(acc, da[i + 1]))

\* Sequence::intersect(other): the result has the left operand's block_size
intersect(A, B) ==
    BuildSequence(IntersectLoop(A, B, 0, 0, 0, 0, <<>>), A.meta.block_size)

\* sorted merge of the streams x (from i) and y (from j), equal values once
RECURSIVE MergeLoop(_, _, _, _, _)
MergeLoop(x, i, y, j, acc) ==
    IF i > Len(x) /\ j > Len(y) THEN acc
    ELSE IF j > Len(y) THEN MergeLoop(x, i + 1, y, j, Emit(acc, x[i]))
    ELSE IF i > Len(x) THEN MergeLoop(x, i, y, j + 1, Emit(acc, y[j]))
    ELSE IF x[i] < y[j] THEN MergeLoop(x, i + 1, y, j, Emit(acc, x[i]))
    ELSE IF x[i] > y[j] THEN MergeLoop(x, i, y, j + 1, Emit(acc, y[j]))
    ELSE MergeLoop(x, i + 1, y, j + 1, Emit(acc, x[i]))

\* Sequence::operator|(other): the result has the left operand's block_size
union_with(A, B) ==
    BuildSequence(MergeLoop(Sequence_decode(A), 1, Sequence_decode(B), 1, <<>>),
                  A.meta.block_size)

\* ------------------------------------------------------------------------
\* Container codec
\* ------------------------------------------------------------------------

\* Sequence::serialize() / Sequence::save(path)
serialize(sq) ==
    PEFMetadataCells(sq.meta) \o sq.block_last \o sq.block_offs \o sq.payload

\* Sequence(std::istream&) / Sequence(filepath)
load(cells) ==
    IF Len(cells) < MetaCells
    THEN [throws |-> "Truncated", seq |-> NoSequence]
    ELSE
        LET meta == [magic |-> cells[1][1], version |-> cells[1][2],
                     n_elem |-> cells[2], block_size |-> cells[3][1],
                     reserved |-> cells[3][2], n_blocks |-> cells[4],
                     payload_offset |-> cells[5]]
            nb == meta.n_blocks
            at == meta.payload_offset \div CellBytes
        IN IF meta.magic # "PPEF"
           THEN [throws |-> "BadMagic", seq |-> NoSequence]
           ELSE IF meta.version # 1
           THEN [throws |-> "BadVersion", seq |-> NoSequence]
           ELSE IF Len(cells) < MetaCells + 2 * nb \/ Len(cells) < at
           THEN [throws |-> "Truncated", seq |-> NoSequence]
           ELSE [throws |-> "",
                 seq |-> [meta |-> meta,
                          block_last |-> SubSeq(cells, MetaCells + 1, MetaCells + nb),
                          block_offs |-> SubSeq(cells, MetaCells + nb + 1,
                                                MetaCells + 2 * nb),
                          payload |-> SubSeq(cells, at + 1, Len(cells))]]

\* ------------------------------------------------------------------------
\* Driver 1: write a list of (val, w), flush, read it back
\* (test_bit_writer_and_reader)
\* ------------------------------------------------------------------------

NoGet == [n |-> 0, w |-> 0, at |-> 0, res |-> 0, scans |-> 0, back |-> FALSE]

\* the values the undefined full-width shift of put() may leave in val
ShiftOutcomes == Word

NoInput == [values |-> <<>>, block_size |-> 0]
NoResult == [op |-> "", seq |-> NoSequence]
NoRet == [op |-> "", arg |-> 0, throws |-> "", val |-> 0]
NoStream == [of |-> "", cells |-> <<>>]

\* the objects a driver does not use
NoSeq ==
    /\ inA = NoInput /\ seqA = NoSequence /\ inB = NoInput /\ seqB = NoSequence
    /\ seqR = NoResult /\ ret = NoRet /\ stream = NoStream
    /\ seqL = NoSequence /\ spc = "idle"
NoEF == values = <<>> /\ blk = NoBlock /\ out = <<>> /\ efpc = "idle"
NoScan == H = <<>> /\ pos = 0 /\ found = <<>>
NoBits ==
    /\ writer = NewWriter /\ puts = <<>> /\ reader = NoReader
    /\ loads = {} /\ got = NoGet /\ phase = "idle"

InitWR ==
    /\ NoScan /\ NoEF /\ NoSeq
    /\ writer = NewWriter
    /\ puts = <<>>
    /\ reader = NoReader
    /\ loads = {}
    /\ got = NoGet
    /\ phase = "writing"

Put ==
    /\ phase = "writing"
    /\ Len(puts) < MaxPuts
    /\ \E val \in Word, w \in 0 .. WordBits :
         \E ub \in ShiftOutcomes :
            /\ writer' = put(writer, val, w, ub)
            /\ puts' = Append(puts, [low |-> val % Pow2(w), w |-> w])
    /\ UNCHANGED <<reader, loads, got, phase>>
    /\ UNCHANGED <<scanVars, efVars, seqVars>>

Flush ==
    /\ phase = "writing"
    /\ writer' = flush(writer)
    /\ phase' = "flushed"
    /\ UNCHANGED <<puts, reader, loads, got>>
    /\ UNCHANGED <<scanVars, efVars, seqVars>>

OpenReader ==
    /\ phase = "flushed"
    /\ reader' = BitReader(writer.words, Len(writer.words))
    /\ loads' = BitReaderLoads(Len(writer.words))
    /\ phase' = "reading"
    /\ UNCHANGED <<writer, puts, got>>
    /\ UNCHANGED <<scanVars, efVars, seqVars>>

\* absolute bit position of the reader after the calls g
BitsRead(g) == g.at + g.w

ReadBack ==
    /\ phase = "reading"
    /\ got.n < Len(puts)
    /\ LET w == puts[got.n + 1].w
           r == get(reader, w)
       IN /\ reader' = r.br
          /\ loads' = loads \cup r.loads
          /\ got' = [got EXCEPT !.n = got.n + 1, !.w = w, !.at = BitsRead(got),
                                 !.res = r.res]
    /\ UNCHANGED <<writer, puts, phase>>
    /\ UNCHANGED <<scanVars, efVars, seqVars>>

NextWR == Put \/ Flush \/ OpenReader \/ ReadBack

SpecWR == InitWR /\ [][NextWR]_vars

\* ------------------------------------------------------------------------
\* Driver 2: a reader over any buffer, any get() calls
\* (test_bit_reader_end_of_stream)
\* ------------------------------------------------------------------------

Buffers(n) == UNION {[1 .. k -> Word] : k \in 0 .. n}

InitRd ==
    /\ NoScan /\ NoEF /\ NoSeq
    /\ writer = NewWriter
    /\ puts = <<>>
    /\ \E buf \in Buffers(MaxWords) :
         /\ reader = BitReader(buf, Len(buf))
         /\ loads = BitReaderLoads(Len(buf))
    /\ got = NoGet
    /\ phase = "reading"

Get ==
    /\ phase = "reading"
    /\ got.n < MaxGets
    /\ \E w \in 0 .. WordBits :
         LET r == get(reader, w)
         IN /\ reader' = r.br
            /\ loads' = loads \cup r.loads
            /\ got' = [got EXCEPT !.n = got.n + 1, !.w = w, !.at = BitsRead(got),
                                 !.res = r.res]
    /\ UNCHANGED <<writer, puts, phase>>
    /\ UNCHANGED <<scanVars, efVars, seqVars>>

NextRd == Get

SpecRd == InitRd /\ [][NextRd]_vars

\* ------------------------------------------------------------------------
\* Driver 2b: a reader over any buffer, get() calls with scan() calls to
\* any position of the buffer in between (test_bit_reader_scan)
\* ------------------------------------------------------------------------

\* the words of the buffers of this driver: every bit position is set in
\* one and clear in another
SeekWords == {0, 6, 9, UINT64_MAX}

InitSeek ==
    /\ NoScan /\ NoEF /\ NoSeq
    /\ writer = NewWriter
    /\ puts = <<>>
    /\ \E buf \in UNION {[1 .. k -> SeekWords] : k \in 0 .. MaxWords} :
         /\ reader = BitReader(buf, Len(buf))
         /\ loads = BitReaderLoads(Len(buf))
    /\ got = NoGet
    /\ phase = "reading"

GetNear ==
    /\ phase = "reading"
    /\ got.n < MaxScanGets
    /\ \E w \in 0 .. WordBits :
         LET r == get(reader, w)
         IN /\ reader' = r.br
            /\ loads' = loads \cup r.loads
            /\ got' = [got EXCEPT !.n = got.n + 1, !.w = w, !.at = BitsRead(got),
                                 !.res = r.res]
    /\ UNCHANGED <<writer, puts, phase>>
    /\ UNCHANGED <<scanVars, efVars, seqVars>>

\* reader.scan(bit_pos), for 0 <= bit_pos <= WordBits * n_words
ScanTo ==
    /\ phase = "reading"
    /\ got.scans < MaxScans
    /\ \E p \in 0 .. WordBits * reader.n_words :
         /\ reader' = scan(reader, p)
         /\ loads' = loads \cup scanLoads(reader, p)
         /\ got' = [got EXCEPT !.w = 0, !.at = p, !.res = 0,
                               !.scans = got.scans + 1, !.back = p < BitsRead(got)]
    /\ UNCHANGED <<writer, puts, phase>>
    /\ UNCHANGED <<scanVars, efVars, seqVars>>

NextSeek == GetNear \/ ScanTo

SpecSeek == InitSeek /\ [][NextSeek]_vars

\* ------------------------------------------------------------------------
\* Driver 3: scan any bit array from any position, and go on from the bit
\* found as EFBlock::decode does
\* ------------------------------------------------------------------------

InitScan ==
    /\ NoBits /\ NoEF /\ NoSeq
    /\ H \in Buffers(MaxWords)
    /\ pos \in Word
    /\ found = <<>>

Scan ==
    /\ found = <<>>
    /\ found' = <<next_one_at_or_after(H, Len(H), pos)>>
    /\ UNCHANGED <<H, pos>>
    /\ UNCHANGED <<bitVars, efVars, seqVars>>

\* start = prev_hi_pos + 1, for a scan that found a bit
ScanOn ==
    /\ found # <<>>
    /\ found[1] # UINT64_MAX
    /\ pos' = Wrap(found[1] + 1)
    /\ found' = <<>>
    /\ UNCHANGED H
    /\ UNCHANGED <<bitVars, efVars, seqVars>>

NextScan == Scan \/ ScanOn

SpecScan == InitScan /\ [][NextScan]_vars

\* ------------------------------------------------------------------------
\* Driver 4: build an EFBlock from any non-decreasing run, the empty one
\* included, and decode it (test_efblock, test_efblock_size_one)
\* ------------------------------------------------------------------------

IsSorted(vals) == \A i \in 1 .. Len(vals) - 1 : vals[i] <= vals[i + 1]

\* the non-decreasing runs of lo .. hi values
SortedRuns(lo, hi) ==
    {vals \in UNION {[1 .. k -> Word] : k \in lo .. hi} : IsSorted(vals)}

InitEF ==
    /\ NoBits /\ NoScan /\ NoSeq
    /\ values \in SortedRuns(0, MaxElems)
    /\ blk = NoBlock
    /\ out = <<>>
    /\ efpc = "input"

\* EFBlock blk(values.data(), values.size()).  A write outside the high
\* vector either stops the process or goes by unnoticed.
Encode ==
    /\ efpc = "input"
    /\ LET e == EFBlock(values, Len(values))
       IN IF e.throws
          THEN blk' = NoBlock /\ efpc' = "thrown"
          ELSE \/ blk' = e.blk /\ efpc' = "built"
               \/ e.stray /\ blk' = NoBlock /\ efpc' = "crashed"
    /\ UNCHANGED <<values, out>>
    /\ UNCHANGED <<bitVars, scanVars, seqVars>>

Decode ==
    /\ efpc = "built"
    /\ out' = decode(blk)
    /\ efpc' = "decoded"
    /\ UNCHANGED <<values, blk>>
    /\ UNCHANGED <<bitVars, scanVars, seqVars>>

NextEF == Encode \/ Decode

SpecEF == InitEF /\ [][NextEF]_vars

\* ------------------------------------------------------------------------
\* Driver 5: construct a Sequence, query it, combine it with a second one,
\* serialize and reload (test_sequence_*, test_pef_construct_*)
\* ------------------------------------------------------------------------

\* the values the Sequence drivers draw from: both ends of the domain, two
\* neighbours, a gap
SeqVals == {0, 1, 9, UINT64_MAX}

\* the inputs of up to n values
Inputs(n) == UNION {[1 .. k -> SeqVals] : k \in 0 .. n}

InitSeq ==
    /\ NoBits /\ NoScan /\ NoEF
    /\ inA \in [values : Inputs(MaxLenA), block_size : 1 .. MaxBlockSize]
    /\ seqA = NoSequence
    /\ inB = NoInput
    /\ seqB = NoSequence
    /\ seqR = NoResult
    /\ ret = NoRet
    /\ stream = NoStream
    /\ seqL = NoSequence
    /\ spc = "input"

\* Sequence seq0(values_0, block_size_0).  A write outside a block's high
\* vector either stops the process or goes by unnoticed.  An exception is
\* kept in ret with the number of blocks encoded before it.
ConstructA ==
    /\ spc = "input"
    /\ LET c == Sequence(inA.values, inA.block_size)
       IN IF c.throws # ""
          THEN /\ seqA' = NoSequence /\ spc' = "thrown"
               /\ ret' = [op |-> "Sequence", arg |-> c.encoded,
                          throws |-> c.throws, val |-> c.stray]
          ELSE /\ \/ seqA' = c.seq /\ spc' = "readyA"
                  \/ c.stray /\ seqA' = NoSequence /\ spc' = "crashed"
               /\ UNCHANGED ret
    /\ UNCHANGED <<inA, inB, seqB, seqR, stream, seqL>>
    /\ UNCHANGED <<bitVars, scanVars, efVars>>

\* seq.decode()
DecodeA ==
    /\ spc = "readyA"
    /\ ret' = [op |-> "decode", arg |-> 0, throws |-> "", val |-> Sequence_decode(seqA)]
    /\ spc' = "queried"
    /\ UNCHANGED <<inA, seqA, inB, seqB, seqR, stream, seqL>>
    /\ UNCHANGED <<bitVars, scanVars, efVars>>

\* seq.get(i)
GetAt ==
    /\ spc = "readyA"
    /\ \E i \in 0 .. MaxLenA :
         LET g == Sequence_get(seqA, i)
         IN ret' = [op |-> "get", arg |-> i, throws |-> g.throws, val |-> g.val]
    /\ spc' = "queried"
    /\ UNCHANGED <<inA, seqA, inB, seqB, seqR, stream, seqL>>
    /\ UNCHANGED <<bitVars, scanVars, efVars>>

\* seq.decode_block(i), for block indices inside and outside the Sequence
DecodeBlock ==
    /\ spc = "readyA"
    /\ \E i \in 0 .. MaxLenA :
         LET d == decode_block(seqA, i)
         IN ret' = [op |-> "decode_block", arg |-> i, throws |-> d.throws, val |-> d.val]
    /\ spc' = "queried"
    /\ UNCHANGED <<inA, seqA, inB, seqB, seqR, stream, seqL>>
    /\ UNCHANGED <<bitVars, scanVars, efVars>>

\* seq.contains(q)
Contains ==
    /\ spc = "readyA"
    /\ \E q \in Word :
         ret' = [op |-> "contains", arg |-> q, throws |-> "", val |-> contains(seqA, q)]
    /\ spc' = "queried"
    /\ UNCHANGED <<inA, seqA, inB, seqB, seqR, stream, seqL>>
    /\ UNCHANGED <<bitVars, scanVars, efVars>>

\* Sequence seq1(values_1, block_size_1)
ConstructB ==
    /\ spc = "readyA"
    /\ \E vals \in {v \in Inputs(MaxLenB) : IsSorted(v)}, bs \in 1 .. MaxBlockSize :
         LET c == Sequence(vals, bs)
         IN /\ inB' = [values |-> vals, block_size |-> bs]
            /\ \/ seqB' = c.seq /\ spc' = "readyAB"
               \/ c.stray /\ seqB' = NoSequence /\ spc' = "crashed"
    /\ UNCHANGED <<inA, seqA, seqR, ret, stream, seqL>>
    /\ UNCHANGED <<bitVars, scanVars, efVars>>

\* seq0.intersect(seq1)
Intersect ==
    /\ spc = "readyAB"
    /\ LET r == intersect(seqA, seqB)
       IN \/ seqR' = [op |-> "intersect", seq |-> r.seq] /\ spc' = "combined"
          \/ r.stray /\ seqR' = NoResult /\ spc' = "crashed"
    /\ UNCHANGED <<inA, seqA, inB, seqB, ret, stream, seqL>>
    /\ UNCHANGED <<bitVars, scanVars, efVars>>

\* seq0 | seq1
Union ==
    /\ spc = "readyAB"
    /\ LET r == union_with(seqA, seqB)
       IN \/ seqR' = [op |-> "union", seq |-> r.seq] /\ spc' = "combined"
          \/ r.stray /\ seqR' = NoResult /\ spc' = "crashed"
    /\ UNCHANGED <<inA, seqA, inB, seqB, ret, stream, seqL>>
    /\ UNCHANGED <<bitVars, scanVars, efVars>>

\* out.decode()
DecodeR ==
    /\ spc = "combined"
    /\ ret' = [op |-> "decodeR", arg |-> 0, throws |-> "",
               val |-> Sequence_decode(seqR.seq)]
    /\ spc' = "queried"
    /\ UNCHANGED <<inA, seqA, inB, seqB, seqR, stream, seqL>>
    /\ UNCHANGED <<bitVars, scanVars, efVars>>

\* seq.serialize() or seq.save(path), of the Sequence or of the result
Serialize ==
    /\ \/ spc = "readyA" /\ stream' = [of |-> "A", cells |-> serialize(seqA)]
       \/ spc = "combined" /\ stream' = [of |-> "R", cells |-> serialize(seqR.seq)]
    /\ spc' = "saved"
    /\ UNCHANGED <<inA, seqA, inB, seqB, seqR, ret, seqL>>
    /\ UNCHANGED <<bitVars, scanVars, efVars>>

\* Sequence out2(in)
Load ==
    /\ spc = "saved"
    /\ LET c == load(stream.cells)
       IN IF c.throws # ""
          THEN seqL' = NoSequence /\ spc' = "badfile"
          ELSE seqL' = c.seq /\ spc' = "loaded"
    /\ UNCHANGED <<inA, seqA, inB, seqB, seqR, ret, stream>>
    /\ UNCHANGED <<bitVars, scanVars, efVars>>

NextSeq ==
    \/ ConstructA \/ DecodeA \/ GetAt \/ DecodeBlock \/ Contains \/ ConstructB
    \/ Intersect \/ Union \/ DecodeR \/ Serialize \/ Load

SpecSeq == InitSeq /\ [][NextSeq]_vars

\* ------------------------------------------------------------------------
\* Properties of the bit codec
\* ------------------------------------------------------------------------

\* bit p of a buffer, zero past its end
StreamBit(words, n_words, p) ==
    IF p < WordBits * n_words
    THEN (words[(p \div WordBits) + 1] \div Pow2(p % WordBits)) % 2
    ELSE 0

RECURSIVE StreamValue(_, _, _, _)
\* the w bits from position p on, the first one least significant
StreamValue(words, n_words, p, w) ==
    IF w = 0 THEN 0
    ELSE StreamBit(words, n_words, p) + 2 * StreamValue(words, n_words, p + 1, w - 1)

\* C8: after put(v_k, w_k) for each k, flush() and a reader over the writer's
\* words, the k-th get(w_k) returns the w_k least-significant bits of v_k.
C8_BitCodecLaw ==
    got.n > 0 => got.res = puts[got.n].low

\* a value written across a word boundary has been read back
C8_Witness ==
    /\ phase = "reading"
    /\ got.n = 2 /\ Len(puts) = 2
    /\ puts[1].w = 3 /\ puts[2].w = WordBits
    /\ puts[2].low = UINT64_MAX
    /\ got.res = UINT64_MAX

\* C9: every get(w) returns the buffer's bits below WordBits * n_words and
\* zeros from there on, and no word at an index >= n_words is ever read.
C9_OverReadZero ==
    /\ got.n > 0 =>
         got.res = StreamValue(reader.words, reader.n_words, got.at, got.w)
    /\ \A i \in loads : i < reader.n_words

\* a get() that started inside a non-zero buffer and ended past its end
C9_Witness ==
    /\ reader.n_words = 1 /\ reader.words[1] = UINT64_MAX
    /\ got.n = 2
    /\ got.at = 2 /\ got.w = WordBits
    /\ got.res = 3

RECURSIVE TotalBits(_)
\* the sum of the widths of a list of put() calls
TotalBits(ps) ==
    IF ps = <<>> THEN 0 ELSE ps[1].w + TotalBits(Tail(ps))

\* C17: after put() calls totalling T bits on a fresh writer, filled is
\* T mod WordBits, below WordBits, and words holds floor(T / WordBits)
\* words; put(v, 0) changes nothing; flush() then leaves ceil(T / WordBits)
\* words with filled = 0 and cur = 0, and a flush() with filled = 0 appends
\* no word.
C17_WriterAccounting ==
    LET T == TotalBits(puts)
    IN /\ phase = "writing" =>
            /\ writer.filled = T % WordBits
            /\ writer.filled >= 0 /\ writer.filled < WordBits
            /\ Len(writer.words) = T \div WordBits
            /\ \A v \in Word : put(writer, v, 0, 0) = writer
       /\ phase \in {"flushed", "reading"} =>
            /\ Len(writer.words) = (T + WordBits - 1) \div WordBits
            /\ writer.filled = 0 /\ writer.cur = 0
            /\ flush(writer) = writer

\* a put of a whole word and a put of no bits have been flushed: the flush
\* found filled = 0 and appended nothing
C17_Witness ==
    /\ phase = "flushed"
    /\ Len(puts) = 2
    /\ puts[1].w = WordBits /\ puts[2].w = 0
    /\ writer.words = <<puts[1].low>>

RECURSIVE Consume(_, _)
\* a reader after k more bits have been read from it
Consume(br, k) ==
    IF k = 0 THEN br
    ELSE LET t == IF k < WordBits THEN k ELSE WordBits
         IN Consume(get(br, t).br, k - t)

\* C16: after scan(p), p <= WordBits * n_words, the following get(w) calls
\* return what a fresh reader returns after consuming exactly p bits,
\* whatever was read before the scan.
C16_Scan ==
    got.scans > 0 =>
        got.res = get(Consume(BitReader(reader.words, reader.n_words), got.at),
                      got.w).res

\* a reader that had read the first word has been moved back into it and
\* has read across the word boundary
C16_Witness ==
    /\ reader.words = <<9, 6>>
    /\ got.scans = 1 /\ got.back
    /\ got.n = 2 /\ got.at = 3 /\ got.w = WordBits
    /\ got.res = 13

\* the positions of the set bits of a bit array from position p on
OnesFrom(Hw, p) ==
    {q \in p .. WordBits * Len(Hw) - 1 : StreamBit(Hw, Len(Hw), q) = 1}

\* C10: next_one_at_or_after returns the least position >= pos, below
\* WordBits * n_words, whose bit is set, and UINT64_MAX exactly when there is
\* none.
C10_NextOne ==
    found # <<>> =>
        LET ones == OnesFrom(H, pos)
        IN /\ ones # {} =>
                /\ found[1] \in ones
                /\ \A q \in ones : found[1] <= q
           /\ ones = {} <=> found[1] = UINT64_MAX

\* a scan that starts in the middle of a word, skips a set bit below pos and
\* finds its bit in the next word
C10_Witness ==
    /\ H = <<1, 4>> /\ pos = 1
    /\ found = <<6>>

\* ------------------------------------------------------------------------
\* Properties of EFBlock
\* ------------------------------------------------------------------------

\* the values of a list
Range(f) == {f[i] : i \in 1 .. Len(f)}

RECURSIVE SortedList(_)
\* the strictly increasing list of the values of a set
SortedList(S) ==
    IF S = {} THEN <<>>
    ELSE LET m == CHOOSE x \in S : \A y \in S : x <= y
         IN <<m>> \o SortedList(S \ {m})

\* ceil(a / b) in the integers
CeilDiv(a, b) == (a + b - 1) \div b

\* C2: EFBlock(values, n).decode() returns the n input values in order, and
\* meta.n_elem = n and meta.floor = values[0], for every non-decreasing run.
C2_BlockRoundTrip ==
    /\ efpc \in {"built", "decoded"} =>
         /\ blk.meta.n_elem = Len(values)
         /\ blk.meta.floor = values[1]
    /\ efpc = "decoded" => out = values

\* C14: EFBlock(values, 0) fails before values[0] is read or a buffer is
\* written; the partitioner never makes a block of no elements, and the
\* Sequence of no values has no block.
C14_EmptyBlock ==
    /\ (efpc # "input" /\ values = <<>>) =>
         /\ efpc = "thrown"
         /\ blk = NoBlock /\ out = <<>>
         /\ ~ EFBlock(values, 0).touched
    /\ \A bs \in 1 .. MaxBlockSize :
         LET sq == BuildSequence(values, bs).seq
         IN /\ \A b \in 0 .. sq.meta.n_blocks - 1 :
                 get_efblock(sq, b).meta.n_elem >= 1
            /\ values = <<>> => sq.meta.n_blocks = 0 /\ sq.payload = <<>>

\* the constructor has been called with no elements and has thrown
C14_Witness ==
    /\ efpc = "thrown"
    /\ values = <<>>
    /\ blk = NoBlock

\* the high part of values[i] of the run in a block of low width l
HighPart(vals, l, i) == (vals[i + 1] - vals[1]) \div Pow2(l)

\* C18: the high bits of an EFBlock built from a non-decreasing run of
\* n >= 1 values hold exactly n set bits, the i-th of them at
\* ((values[i] - floor) >> l) + i, all below meta.high_bits_len, and
\* meta.high_bits_len = n + ceil(range / 2^l) <= WordBits * meta.high_words.
C18_HighBits ==
    efpc \in {"built", "decoded"} =>
        LET n == Len(values)
            l == blk.meta.l
            range == values[n] - values[1] + 1
            ones == OnesFrom(blk.high, 0)
        IN /\ Cardinality(ones) = n
           /\ SortedList(ones) = [i \in 1 .. n |-> HighPart(values, l, i - 1) + i - 1]
           /\ \A q \in ones : q < blk.meta.high_bits_len
           /\ blk.meta.high_bits_len = n + CeilDiv(range, Pow2(l))
           /\ blk.meta.high_bits_len <= WordBits * blk.meta.high_words

\* C19: in the encoding of a non-decreasing run no position or size wraps:
\* range = last - floor + 1, range_hi = ceil(range / 2^l), bits_hi = n +
\* range_hi and every pos = hi + i are what they are in the integers, with
\* hi + i < UINT64_MAX, and every set-bit write goes to a word of the high
\* vector.
C19_NoOverflow ==
    /\ efpc # "crashed"
    /\ efpc \in {"built", "decoded"} =>
         LET n == Len(values)
             l == blk.meta.l
             range == values[n] - values[1] + 1
         IN /\ range < Modulus
            /\ range + Pow2(l) - 1 < Modulus
            /\ n + CeilDiv(range, Pow2(l)) < Modulus
            /\ blk.meta.high_bits_len = n + CeilDiv(range, Pow2(l))
            /\ \A i \in 0 .. n - 1 : HighPart(values, l, i) + i < UINT64_MAX
            /\ ~ EFBlock(values, n).stray

\* C20: decode() treats "not found" from next_one_at_or_after as an error:
\* it never returns values for a block whose high bits hold fewer than
\* meta.n_elem set bits, never emits a value computed from UINT64_MAX and
\* never restarts the scan at bit 0 from a "not found" kept in prev_hi_pos.
C20_NotFound ==
    efpc = "decoded" =>
        /\ Cardinality(OnesFrom(blk.high, 0)) >= blk.meta.n_elem
        /\ ~ DecodeRun(blk).notfound
        /\ ~ DecodeRun(blk).restarted

\* ------------------------------------------------------------------------
\* Properties of Sequence
\* ------------------------------------------------------------------------

\* C1: Sequence(values, B).decode() returns exactly values, for every
\* non-decreasing values and every block_size B >= 1.
C1_RoundTrip ==
    ret.op = "decode" => ret.val = inA.values

\* C3: get(i) returns values[i] for every index 0 <= i < n.
C3_Get ==
    (ret.op = "get" /\ ret.arg < Len(inA.values)) =>
        ret.throws = "" /\ ret.val = inA.values[ret.arg + 1]

\* C4: contains(q) is true if and only if q occurs in values.
C4_Contains ==
    ret.op = "contains" => (ret.val <=> ret.arg \in Range(inA.values))

\* C5: decode(A.intersect(B)) is the strictly increasing list of the values
\* that occur in both decode(A) and decode(B).
C5_Intersect ==
    (ret.op = "decodeR" /\ seqR.op = "intersect") =>
        ret.val = SortedList(Range(Sequence_decode(seqA)) \cap
                             Range(Sequence_decode(seqB)))

\* C6: decode(A | B) is the strictly increasing list of the distinct values
\* that occur in decode(A) or decode(B).
C6_Union ==
    (ret.op = "decodeR" /\ seqR.op = "union") =>
        ret.val = SortedList(Range(Sequence_decode(seqA)) \cup
                             Range(Sequence_decode(seqB)))

\* the Sequence that was serialized
Saved == IF stream.of = "A" THEN seqA ELSE seqR.seq

\* C7: a Sequence constructed from the serialized form of seq has the header
\* fields of seq, all seven, and decodes to what seq decodes to.
C7_SaveLoad ==
    /\ spc # "badfile"
    /\ spc = "loaded" =>
         /\ seqL.meta.magic = Saved.meta.magic
         /\ seqL.meta.version = Saved.meta.version
         /\ seqL.meta.n_elem = Saved.meta.n_elem
         /\ seqL.meta.block_size = Saved.meta.block_size
         /\ seqL.meta.reserved = Saved.meta.reserved
         /\ seqL.meta.n_blocks = Saved.meta.n_blocks
         /\ seqL.meta.payload_offset = Saved.meta.payload_offset
         /\ Sequence_decode(seqL) = Sequence_decode(Saved)

\* a union of two blocks' worth of values with low bits has been reloaded
C7_Witness ==
    /\ spc = "loaded"
    /\ stream.of = "R" /\ seqR.op = "union"
    /\ seqL.meta.n_blocks = 2
    /\ Sequence_decode(seqL) = <<0, 1, 9>>

\* C11: a Sequence built from n values with block_size B has
\* n_blocks = ceil(n / B), and decode_block(b) returns exactly
\* values[b*B .. min((b+1)*B, n)) for every b < n_blocks.
C11_Blocks ==
    /\ spc = "readyA" =>
         seqA.meta.n_blocks = CeilDiv(Len(inA.values), inA.block_size)
    /\ (ret.op = "decode_block" /\ ret.arg < seqA.meta.n_blocks) =>
         /\ ret.throws = ""
         /\ ret.val = SubSeq(inA.values, ret.arg * inA.block_size + 1,
                             Min((ret.arg + 1) * inA.block_size, Len(inA.values)))

\* the header, the skip index and the blocks of a Sequence agree: n_blocks
\* is ceil(n_elem / block_size), block b holds min(block_size, n_elem -
\* b * block_size) >= 1 elements and as many set high bits
WellFormed(sq) ==
    /\ sq.meta.n_blocks = CeilDiv(sq.meta.n_elem, sq.meta.block_size)
    /\ Len(sq.block_last) = sq.meta.n_blocks
    /\ Len(sq.block_offs) = sq.meta.n_blocks
    /\ \A b \in 0 .. sq.meta.n_blocks - 1 :
         LET e == get_efblock(sq, b)
         IN /\ e.meta.n_elem >= 1
            /\ e.meta.n_elem = Min(sq.meta.block_size,
                                   sq.meta.n_elem - b * sq.meta.block_size)
            /\ Cardinality(OnesFrom(e.high, 0)) = e.meta.n_elem

\* C12: the result R of A.intersect(B) or A | B is a well-formed Sequence
\* with A's block_size, n_elem equal to the number of values of R, and
\* n_blocks = ceil(n_elem / block_size) with no empty block.
C12_ResultShape ==
    /\ ~ (spc = "crashed" /\ inB # NoInput /\ seqB # NoSequence)
    /\ spc = "combined" =>
         /\ seqR.seq.meta.block_size = seqA.meta.block_size
         /\ seqR.seq.meta.n_elem = Len(Sequence_decode(seqR.seq))
         /\ WellFormed(seqR.seq)

\* C13: constructing a Sequence from an input that is not non-decreasing
\* fails with NotSorted before any block is encoded: no Sequence is
\* produced and no bit is written outside a block's high vector.
C13_NotSorted ==
    (spc # "input" /\ ~ IsSorted(inA.values)) =>
        /\ spc = "thrown"
        /\ seqA = NoSequence
        /\ ret.op = "Sequence" /\ ret.throws = "NotSorted"
        /\ ret.arg = 0
        /\ ret.val = FALSE

\* an input whose first block is in order and whose second is not has been
\* rejected
C13_Witness ==
    /\ spc = "thrown"
    /\ inA = [values |-> <<0, UINT64_MAX, 9>>, block_size |-> 2]
    /\ ret.throws = "NotSorted"

\* C15: decode_block(i) with i >= n_blocks and get(i) with i >= n_elem fail
\* with IndexOutOfRange, and the header, the skip index and the payload of
\* the Sequence are afterwards what construction made them.
C15_IndexOutOfRange ==
    /\ (ret.op = "decode_block" /\ ret.arg >= seqA.meta.n_blocks) =>
         /\ ret.throws = "IndexOutOfRange"
         /\ seqA = BuildSequence(inA.values, inA.block_size).seq
    /\ (ret.op = "get" /\ ret.arg >= seqA.meta.n_elem) =>
         /\ ret.throws = "IndexOutOfRange"
         /\ seqA = BuildSequence(inA.values, inA.block_size).seq

\* get(n_elem) on a Sequence of two blocks has been refused
C15_Witness ==
    /\ ret.op = "get" /\ ret.arg = 3
    /\ seqA.meta.n_elem = 3 /\ seqA.meta.n_blocks = 2
    /\ ret.throws = "IndexOutOfRange"

====
